---- MODULE Spec2Model ----
(***************************************************************************)
(* MapReduce-style parallel sort and max-value aggregation.                *)
(*                                                                         *)
(* Two families of executors are modelled, each in a threaded and a        *)
(* process-based variant, as they appear in main.py and in the packages    *)
(* max_value_aggregation/ and mapreduce_sort/:                             *)
(*                                                                         *)
(*   max  : max_threaded, max_process, max_threads, max_processes          *)
(*   sort : map_sort_threaded, map_sort_process, sort_threads,             *)
(*          sort_processes                                                 *)
(*                                                                         *)
(* A run is one call of an executor on (data, workers).  The caller        *)
(* partitions the input, creates the shared state, starts one worker per   *)
(* segment, joins the workers in start order and then reads the result.    *)
(* Workers interleave freely with each other and with the caller.          *)
(*                                                                         *)
(* Numbers.  The inputs of a max run are Python ints, inside and just      *)
(* above the range of a C int (the 'i' cell of max_process); the           *)
(* accumulators also hold float("-inf") and -10**18.  All of these are     *)
(* written as extended numbers <<rank, v>>, ordered first by rank and then *)
(* by v:                                                                   *)
(*     <<0, 0>>  float("-inf")                                             *)
(*     <<1, 0>>  -10**18                                                   *)
(*     <<2, v>>  the int v, with -2**31 <= v < 2**31                       *)
(*     <<3, v>>  the int 2**31 + v, with 0 <= v < 2**31                    *)
(* The inputs of a sort run and of a partitioner run are plain ints.       *)
(***************************************************************************)
EXTENDS Integers, Sequences, FiniteSets, TLC

VARIABLES
    mode,           \* the executor being run
    data,           \* the caller's input list
    workers,        \* the requested worker count k
    chunks,         \* the list of segments made by the partitioner
    acc,            \* max: the shared accumulator (extended number)
    lock,           \* max: 0 when the lock is free, else the holder's index
    local_max,      \* max: worker i's local maximum, once computed
    sorted_chunks,  \* sort: the slot array / collected results
    writes,         \* sort: how many times slot i has been written
    wpc,            \* worker i's position
    started,        \* how many workers the caller has started
    joined,         \* how many workers the caller has joined
    pc,             \* the caller's position
    result          \* the value the executor returns

vars == <<mode, data, workers, chunks, acc, lock, local_max, sorted_chunks,
          writes, wpc, started, joined, pc, result>>

(***************************************************************************)
(* Bounds of the model.                                                    *)
(***************************************************************************)
MaxLenMax == 3      \* longest input of a max run
MaxLenSort == 3     \* longest input of a sort run
MaxLenPart == 5     \* longest input of a partitioner run
MaxK == 6           \* largest segment count of a partitioner run
MaxNegK == 2        \* the least segment count of a partitioner run is -MaxNegK

\* Worker counts the experiment drivers use.
WorkerCounts == {1, 2, 4, 8}

\* The worker counts a run is started with.
MaxWorkers == 4

RunWorkerCounts == {k \in WorkerCounts : k <= MaxWorkers}

\* -99999999, the initial value of the 'i' cell of max_process.
PROC_SENTINEL == -99999999

\* The smallest value of a C int: -2**31.
C_INT_MIN == (-2147483647) - 1

\* Input values of a sort run.
SortValues == {-3, 5, 9}

\* Input values of a partitioner run (positions matter, values do not).
PartValues == {0, 1}

MaxModes == {"max_threaded", "max_process", "max_threads", "max_processes"}
SortModes == {"map_sort_threaded", "map_sort_process", "sort_threads", "sort_processes"}
PartModes == {"split_into_chunks", "chunks_of"}
ThreadedModes == {"max_threaded", "max_threads", "map_sort_threaded", "sort_threads"}
ProcessModes == {"max_process", "max_processes", "map_sort_process", "sort_processes"}
PoolModes == {"map_sort_process", "sort_processes"}

\* A slot that has not been assigned (Python's None).
None == [i \in {0} |-> 0]

(***************************************************************************)
(* Sequences.                                                              *)
(***************************************************************************)
SeqsUpTo(S, n) == UNION {[1..m -> S] : m \in 0..n}

Min(a, b) == IF a < b THEN a ELSE b

\* data[a:b] for a, b >= 0 (0-based, half open; indices past the end are
\* clamped to len(data)).
Slice(s, a, b) ==
    LET lo == Min(a, Len(s))
        hi == Min(b, Len(s))
    IN  [j \in 1..(hi - lo) |-> s[lo + j]]

RECURSIVE Concat(_)
Concat(ss) == IF ss = <<>> THEN <<>> ELSE Head(ss) \o Concat(Tail(ss))

\* How many times x occurs in s.
Count(s, x) == Cardinality({j \in 1..Len(s) : s[j] = x})

IsPermutation(s, t) ==
    /\ Len(s) = Len(t)
    /\ \A j \in 1..Len(s) : Count(s, s[j]) = Count(t, s[j])

(***************************************************************************)
(* Python arithmetic and comparison.                                       *)
(***************************************************************************)
\* n % k: the result has the sign of the divisor (k /= 0).
PyMod(n, k) == IF k > 0 THEN n % k ELSE -((-n) % (-k))

\* n // k: floor division (k /= 0).
PyFloorDiv(n, k) == IF k > 0 THEN n \div k ELSE (-n) \div (-k)

\* Extended numbers.
NEG_INF == <<0, 0>>             \* float("-inf")
NEG_1E18 == <<1, 0>>            \* -10**18
Fin(v) == <<2, v>>              \* the int v, in the range of a C int
Above(v) == <<3, v>>            \* the int 2**31 + v, v >= 0

\* a > b on extended numbers.
Gt(a, b) == \/ a[1] > b[1]
            \/ a[1] = b[1] /\ a[2] > b[2]

\* Input values of a max run: one below PROC_SENTINEL, two ordinary ones and
\* one above the range of a C int (2**31).
MaxValues == {Fin(-100000000), Fin(-3), Fin(9), Above(0)}

(***************************************************************************)
(* The partitioner.                                                        *)
(***************************************************************************)
\* SplitLoop with the test `i <= rem`: one segment too many gets an extra
\* element.
RECURSIVE SplitLoopOffByOne(_, _, _, _, _, _, _)
SplitLoopOffByOne(d, num_chunks, base, rem, i, start, out) ==
    IF i >= num_chunks THEN out
    ELSE LET end == start + base + (IF i <= rem THEN 1 ELSE 0)
         IN  SplitLoopOffByOne(d, num_chunks, base, rem, i + 1, end,
                               Append(out, Slice(d, start, end)))

\* The loop of split_into_chunks from iteration i on.
RECURSIVE SplitLoop(_, _, _, _, _, _, _)
SplitLoop(d, num_chunks, base, rem, i, start, out) ==
    IF i >= num_chunks THEN out
    ELSE LET end == start + base + (IF i < rem THEN 1 ELSE 0)
         IN  SplitLoop(d, num_chunks, base, rem, i + 1, end,
                       Append(out, Slice(d, start, end)))

split_into_chunks(d, num_chunks) ==
    LET n == Len(d)
        base == PyFloorDiv(n, num_chunks)
        rem == PyMod(n, num_chunks)
    IN  SplitLoop(d, num_chunks, base, rem, 0, 0, <<>>)

\* ChunksOfLoop without `idx += sz`: every segment starts at 0.
RECURSIVE ChunksOfLoopStuck(_, _, _, _, _, _, _)
ChunksOfLoopStuck(d, k, base, rem, i, idx, out) ==
    IF i >= k THEN out
    ELSE LET sz == base + (IF i < rem THEN 1 ELSE 0)
         IN  ChunksOfLoopStuck(d, k, base, rem, i + 1, idx,
                               Append(out, Slice(d, idx, idx + sz)))

\* The generator chunks_of from iteration i on, collected into a list.
RECURSIVE ChunksOfLoop(_, _, _, _, _, _, _)
ChunksOfLoop(d, k, base, rem, i, idx, out) ==
    IF i >= k THEN out
    ELSE LET sz == base + (IF i < rem THEN 1 ELSE 0)
         IN  ChunksOfLoop(d, k, base, rem, i + 1, idx + sz,
                          Append(out, Slice(d, idx, idx + sz)))

chunks_of(d, k) ==
    LET n == Len(d)
        base == PyFloorDiv(n, k)
        rem == PyMod(n, k)
    IN  ChunksOfLoop(d, k, base, rem, 0, 0, <<>>)

\* The partitioner each executor calls.
UsesChunksOf(m) == m \in {"sort_threads", "sort_processes", "max_threads",
                          "max_processes", "chunks_of"}

Partition(m, d, k) == IF UsesChunksOf(m) THEN chunks_of(d, k)
                      ELSE split_into_chunks(d, k)

(***************************************************************************)
(* The per-segment computations and the reducer.                           *)
(***************************************************************************)
\* max(chunk) of a nonempty list: the first element no later one exceeds.
RECURSIVE PyMaxFrom(_, _, _)
PyMaxFrom(s, j, m) ==
    IF j > Len(s) THEN m
    ELSE PyMaxFrom(s, j + 1, IF Gt(s[j], m) THEN s[j] ELSE m)

PyMax(s) == PyMaxFrom(s, 2, s[1])

\* Insert x into the ascending list s after the elements that are <= x.
RECURSIVE InsertSorted(_, _)
InsertSorted(x, s) ==
    IF s = <<>> THEN <<x>>
    ELSE IF x < Head(s) THEN <<x>> \o s
    ELSE <<Head(s)>> \o InsertSorted(x, Tail(s))

\* list.sort() and sorted(): ascending and stable.
RECURSIVE SortFrom(_, _, _)
SortFrom(s, j, out) ==
    IF j > Len(s) THEN out ELSE SortFrom(s, j + 1, InsertSorted(s[j], out))

PySorted(s) == SortFrom(s, 1, <<>>)

\* MergePick that takes from the first nonempty list, whatever its head.
MergePickFirst(cs) ==
    CHOOSE i \in 1..Len(cs) :
        /\ cs[i] /= <<>>
        /\ \A j \in 1..(i - 1) : cs[j] = <<>>

\* The index heapq.merge takes its next element from: the nonempty list
\* with the least head, the earliest such list on a tie.
MergePick(cs) ==
    CHOOSE i \in 1..Len(cs) :
        /\ cs[i] /= <<>>
        /\ \A j \in 1..Len(cs) :
              cs[j] /= <<>> =>
                  \/ cs[i][1] < cs[j][1]
                  \/ cs[i][1] = cs[j][1] /\ i <= j

\* list(heapq.merge(*chunks)).
RECURSIVE MergeFrom(_, _)
MergeFrom(cs, out) ==
    IF \A i \in 1..Len(cs) : cs[i] = <<>> THEN out
    ELSE LET i == MergePick(cs)
         IN  MergeFrom([cs EXCEPT ![i] = Tail(cs[i])], Append(out, cs[i][1]))

\* A reducer that hands back the segments as they are, unmerged.
ReduceUnmerged(cs) == cs

reduce_merge_sorted(cs) == MergeFrom(cs, <<>>)

IsSorted(s) == \A j \in 1..(Len(s) - 1) : s[j] <= s[j + 1]

(***************************************************************************)
(* One run of an executor.                                                 *)
(***************************************************************************)
\* The initial value of the shared accumulator.
Sentinel(m) ==
    CASE m = "max_threaded"  -> NEG_INF
      [] m = "max_threads"   -> NEG_INF
      [] m = "max_process"   -> Fin(PROC_SENTINEL)
      [] m = "max_processes" -> NEG_1E18

\* What the worker of an executor makes of an empty segment: max() of an
\* empty list raises ValueError unless the worker tests for it.
EmptyLocalMax(m) ==
    CASE m = "max_threaded"  -> None
      [] m = "max_process"   -> None
      [] m = "max_threads"   -> NEG_INF
      [] m = "max_processes" -> NEG_1E18

\* The value the cell holds after a worker stores v into it.  The 'i' cell of
\* max_process keeps the low 32 bits of v, so 2**31 + w becomes -2**31 + w;
\* the dict entries of the threaded executors and the 'l' cell of
\* max_processes hold every value of the model as it is.
Stored(m, v) ==
    IF m = "max_process" /\ v[1] = 3 THEN Fin(C_INT_MIN + v[2]) ELSE v

NumChunks == Len(chunks)
Terminated(i) == wpc[i] \in {"done", "failed"}

\* The caller's position once s workers are started and j are joined.
CallerPc(n, s, j) ==
    IF s < n THEN "dispatch" ELSE IF j < n THEN "join" ELSE "read"

\* The input of the worked scenario: data = [5, -3, 9, 9, 0].
ScenarioData == <<5, -3, 9, 9, 0>>

Inputs(m) ==
    IF m \in MaxModes THEN SeqsUpTo(MaxValues, MaxLenMax)
    ELSE SeqsUpTo(SortValues, MaxLenSort) \cup {ScenarioData}

Init ==
    /\ mode \in MaxModes \cup SortModes
    /\ data \in Inputs(mode)
    /\ workers \in RunWorkerCounts
    /\ chunks = <<>>
    /\ acc = None
    /\ lock = 0
    /\ local_max = <<>>
    /\ sorted_chunks = <<>>
    /\ writes = <<>>
    /\ wpc = <<>>
    /\ started = 0
    /\ joined = 0
    /\ pc = "call"
    /\ result = None

\* The executor's prologue: partition the input and create the shared state.
Setup ==
    /\ pc = "call"
    /\ mode \in MaxModes \cup SortModes
    /\ LET cs == Partition(mode, data, workers)
           n == Len(cs)
       IN  /\ chunks' = cs
           /\ acc' = IF mode \in MaxModes THEN Sentinel(mode) ELSE None
           /\ local_max' = [i \in 1..n |-> None]
           /\ sorted_chunks' = IF mode \in SortModes THEN [i \in 1..n |-> None]
                               ELSE <<>>
           /\ writes' = [i \in 1..n |-> 0]
           /\ wpc' = [i \in 1..n |-> "idle"]
           /\ pc' = CallerPc(n, 0, 0)
    /\ lock' = 0
    /\ UNCHANGED <<mode, data, workers, started, joined, result>>

\* One iteration of the start loop: Thread(...).start() / Process(...).start().
StartWorker ==
    /\ pc = "dispatch"
    /\ mode \notin PoolModes
    /\ started < NumChunks
    /\ wpc' = [wpc EXCEPT ![started + 1] = "run"]
    /\ started' = started + 1
    /\ pc' = CallerPc(NumChunks, started + 1, joined)
    /\ UNCHANGED <<mode, data, workers, chunks, acc, lock, local_max,
                   sorted_chunks, writes, joined, result>>

\* pool.map(...) hands every segment to the pool and blocks.
PoolMap ==
    /\ pc = "dispatch"
    /\ mode \in PoolModes
    /\ wpc' = [i \in 1..NumChunks |-> "run"]
    /\ started' = NumChunks
    /\ pc' = "join"
    /\ UNCHANGED <<mode, data, workers, chunks, acc, lock, local_max,
                   sorted_chunks, writes, joined, result>>

\* A join() that does not wait for the worker.
JoinReturnsAtOnce(i) == TRUE

\* Whether join() on worker i returns.
JoinReturns(i) == Terminated(i)

\* One iteration of the join loop: t.join() / p.join().
JoinWorker ==
    /\ pc = "join"
    /\ mode \notin PoolModes
    /\ joined < NumChunks
    /\ JoinReturns(joined + 1)
    /\ joined' = joined + 1
    /\ pc' = CallerPc(NumChunks, started, joined + 1)
    /\ UNCHANGED <<mode, data, workers, chunks, acc, lock, local_max,
                   sorted_chunks, writes, wpc, started, result>>

\* pool.map(...) returns once every segment's result has arrived.
PoolCollect ==
    /\ pc = "join"
    /\ mode \in PoolModes
    /\ \A i \in 1..NumChunks : JoinReturns(i)
    /\ joined' = NumChunks
    /\ pc' = "read"
    /\ UNCHANGED <<mode, data, workers, chunks, acc, lock, local_max,
                   sorted_chunks, writes, wpc, started, result>>

\* The value the executor returns (first component of the returned tuple).
Returned(m) ==
    IF m \in MaxModes THEN acc
    ELSE IF m \in {"sort_threads", "sort_processes"}
         THEN reduce_merge_sorted(sorted_chunks)
         ELSE sorted_chunks

Return ==
    /\ pc = "read"
    /\ result' = Returned(mode)
    /\ pc' = "done"
    /\ UNCHANGED <<mode, data, workers, chunks, acc, lock, local_max,
                   sorted_chunks, writes, wpc, started, joined>>

(***************************************************************************)
(* Sort workers.                                                           *)
(***************************************************************************)
\* Workers that all write the first slot.
SlotFirst(i) == 1

\* The slot worker i writes its sorted segment to.
Slot(i) == i

\* thread_worker / worker / map_sort_chunk / _worker_sort on segment i.
\* map_sort_chunk sorts its argument in place: in sort_threads that is the
\* caller's segment, in sort_processes a pickled copy of it.
\* The number of elements in the segments before segment i.
RECURSIVE SegmentOffset(_, _)
SegmentOffset(cs, i) ==
    IF i <= 1 THEN 0 ELSE SegmentOffset(cs, i - 1) + Len(cs[i - 1])

\* The caller's list if a segment were a view of it: the sorted segment
\* shows through at the segment's offset.
DataThroughView(d, cs, i, out) ==
    [p \in 1..Len(d) |->
        IF SegmentOffset(cs, i) < p /\ p <= SegmentOffset(cs, i) + Len(out)
        THEN out[p - SegmentOffset(cs, i)] ELSE d[p]]

\* The caller's list after worker i has sorted its segment: the segment is
\* a slice, a new list, so the caller's list keeps its order.
DataAfterSort(d, cs, i, out) == d

SortWorker(i) ==
    /\ mode \in SortModes
    /\ wpc[i] = "run"
    /\ LET out == PySorted(chunks[i])
       IN  /\ sorted_chunks' = [sorted_chunks EXCEPT ![Slot(i)] = out]
           /\ chunks' = IF mode = "sort_threads"
                        THEN [chunks EXCEPT ![i] = out] ELSE chunks
           /\ data' = DataAfterSort(data, chunks, i, out)
    /\ writes' = [writes EXCEPT ![Slot(i)] = @ + 1]
    /\ wpc' = [wpc EXCEPT ![i] = "done"]
    /\ UNCHANGED <<mode, workers, acc, lock, local_max, started,
                   joined, pc, result>>

(***************************************************************************)
(* Max workers.                                                            *)
(***************************************************************************)
\* local_max = max(chunk) if chunk else <sentinel>, or None where max()
\* raises ValueError.
LocalMax(m, chunk) ==
    IF chunk = <<>> THEN EmptyLocalMax(m) ELSE PyMax(chunk)

\* max(chunk) raises ValueError on an empty segment: the worker ends there,
\* the thread or process terminates, and join() on it returns as usual.
RaiseValueError(i) ==
    /\ mode \in MaxModes
    /\ wpc[i] = "run"
    /\ LocalMax(mode, chunks[i]) = None
    /\ wpc' = [wpc EXCEPT ![i] = "failed"]
    /\ UNCHANGED <<mode, data, workers, chunks, acc, lock, local_max,
                   sorted_chunks, writes, started, joined, pc, result>>

\* A lock that never blocks.
CanAcquireHeld(i) == TRUE

\* Whether worker i may enter `with lock:`.
CanAcquire(i) == lock = 0

\* local_max = max(chunk): the worker's first statement, taken whether or
\* not the lock is free.
ComputeLocalMax(i) ==
    /\ mode \in MaxModes
    /\ wpc[i] = "run"
    /\ local_max[i] = None
    /\ LocalMax(mode, chunks[i]) /= None
    /\ local_max' = [local_max EXCEPT ![i] = LocalMax(mode, chunks[i])]
    /\ UNCHANGED <<mode, data, workers, chunks, acc, lock, sorted_chunks,
                   writes, wpc, started, joined, pc, result>>

\* Entering `with lock:`: the worker has its local maximum and waits here
\* while another worker holds the lock.
Acquire(i) ==
    /\ mode \in MaxModes
    /\ wpc[i] = "run"
    /\ local_max[i] /= None
    /\ CanAcquire(i)
    /\ lock' = i
    /\ wpc' = [wpc EXCEPT ![i] = "cs"]
    /\ UNCHANGED <<mode, data, workers, chunks, acc, local_max, sorted_chunks,
                   writes, started, joined, pc, result>>

\* The test `local_max > shared`.
Exceeds(lm, a) == Gt(lm, a)

Compare(i) ==
    /\ mode \in MaxModes
    /\ wpc[i] = "cs"
    /\ wpc' = [wpc EXCEPT ![i] = IF Exceeds(local_max[i], acc) THEN "write"
                                 ELSE "exit"]
    /\ UNCHANGED <<mode, data, workers, chunks, acc, lock, local_max,
                   sorted_chunks, writes, started, joined, pc, result>>

\* The assignment shared = local_max.
Write(i) ==
    /\ mode \in MaxModes
    /\ wpc[i] = "write"
    /\ acc' = Stored(mode, local_max[i])
    /\ wpc' = [wpc EXCEPT ![i] = "exit"]
    /\ UNCHANGED <<mode, data, workers, chunks, lock, local_max, sorted_chunks,
                   writes, started, joined, pc, result>>

\* Leaving `with lock:`.
Release(i) ==
    /\ mode \in MaxModes
    /\ wpc[i] = "exit"
    /\ lock' = 0
    /\ wpc' = [wpc EXCEPT ![i] = "done"]
    /\ UNCHANGED <<mode, data, workers, chunks, acc, local_max, sorted_chunks,
                   writes, started, joined, pc, result>>

Worker(i) ==
    \/ SortWorker(i)
    \/ RaiseValueError(i)
    \/ ComputeLocalMax(i)
    \/ Acquire(i)
    \/ Compare(i)
    \/ Write(i)
    \/ Release(i)

Next ==
    \/ Setup
    \/ StartWorker
    \/ PoolMap
    \/ JoinWorker
    \/ PoolCollect
    \/ Return
    \/ \E i \in 1..NumChunks : Worker(i)

Spec == Init /\ [][Next]_vars

(***************************************************************************)
(* The partitioner on its own: one call on (data, k) with k >= 1.          *)
(***************************************************************************)
PartInit ==
    /\ mode \in PartModes
    /\ data \in SeqsUpTo(PartValues, MaxLenPart)
    /\ workers \in 1..MaxK
    /\ chunks = <<>>
    /\ acc = None
    /\ lock = 0
    /\ local_max = <<>>
    /\ sorted_chunks = <<>>
    /\ writes = <<>>
    /\ wpc = <<>>
    /\ started = 0
    /\ joined = 0
    /\ pc = "call"
    /\ result = None

PartitionCall ==
    /\ pc = "call"
    /\ mode \in PartModes
    /\ workers /= 0
    /\ chunks' = Partition(mode, data, workers)
    /\ result' = chunks'
    /\ pc' = "done"
    /\ UNCHANGED <<mode, data, workers, acc, lock, local_max, sorted_chunks,
                   writes, wpc, started, joined>>

PartNext == PartitionCall

PartSpec == PartInit /\ [][PartNext]_vars

(***************************************************************************)
(* Properties.                                                             *)
(***************************************************************************)
Elems(s) == {s[j] : j \in 1..Len(s)}

\* The maximum of a nonempty list, by its definition.
TrueMax(d) == CHOOSE x \in Elems(d) : \A y \in Elems(d) : ~Gt(y, x)

InCS(i) == wpc[i] \in {"cs", "write", "exit"}

\* The accumulator after the workers from i on have run one after another
\* in index order, each to completion, starting from the value a.
RECURSIVE InIndexOrder(_, _, _, _)
InIndexOrder(m, cs, i, a) ==
    IF i > Len(cs) THEN a
    ELSE LET lm == LocalMax(m, cs[i])
         IN  InIndexOrder(m, cs, i + 1,
                          IF lm /= None /\ Exceeds(lm, a) THEN Stored(m, lm)
                          ELSE a)

\* C1: on a nonempty input, the threaded max executors return the true
\* maximum of the whole input, whatever the interleaving of the workers.
ThreadedMaxIsTrueMax ==
    (pc = "done" /\ mode \in {"max_threaded", "max_threads"} /\ data /= <<>>)
        => result = TrueMax(data)

\* Two workers with nonempty segments raced and the executor returned the
\* value of the second one.
ThreadedMaxReturned ==
    /\ pc = "done"
    /\ mode \in {"max_threaded", "max_threads"}
    /\ workers = 2
    /\ Len(data) = 2
    /\ Gt(data[2], data[1])
    /\ result = data[2]

\* C2: on a nonempty input of signed integers, the process-based max
\* executors return the true maximum of the whole input.
ProcessMaxIsTrueMax ==
    (pc = "done" /\ mode \in {"max_process", "max_processes"} /\ data /= <<>>)
        => result = TrueMax(data)

\* C3: on a nonempty input the merged output of sort_threads and
\* sort_processes is ascending and a permutation of the input; the segments
\* map_sort_threaded and map_sort_process return for merging are each
\* ascending and together a permutation of the input.
SortedPermutation ==
    (pc = "done" /\ mode \in SortModes /\ data /= <<>>) =>
        IF mode \in {"sort_threads", "sort_processes"}
        THEN IsSorted(result) /\ IsPermutation(result, data)
        ELSE /\ \A i \in 1..Len(result) : IsSorted(result[i])
             /\ IsPermutation(Concat(result), data)

\* The worked scenario: [5, -3, 9, 9, 0] with two workers gives
\* [-3, 0, 5, 9, 9] under both executors of main.py.
ScenarioSorted ==
    /\ pc = "done"
    /\ mode \in {"sort_threads", "sort_processes"}
    /\ data = ScenarioData
    /\ workers = 2
    /\ result = <<-3, 0, 5, 9, 9>>

\* C4: for k >= 1 the partitioner makes exactly k segments whose
\* concatenation, in order, is the input.
PartitionReassembles ==
    (pc = "done" /\ mode \in PartModes) =>
        /\ Len(chunks) = workers
        /\ Concat(chunks) = data

\* A partition into uneven segments, some of them empty.
PartitionedUneven ==
    /\ pc = "done"
    /\ mode \in PartModes
    /\ workers = 3
    /\ data = <<0, 1, 1, 0, 1>>
    /\ chunks = << <<0, 1>>, <<1, 0>>, <<1>> >>

\* C5: segment i (0-indexed) has n // k + (1 if i < n % k else 0) elements:
\* every size is floor(n/k) or ceil(n/k), and the larger size is that of
\* exactly the first n mod k segments.
SegmentSizes ==
    (pc = "done" /\ mode \in PartModes) =>
        LET n == Len(data)
            k == workers
            floor == n \div k
            ceil == (n + k - 1) \div k
            larger == {i \in 1..Len(chunks) : Len(chunks[i]) > floor}
        IN  /\ Len(chunks) = k
            /\ \A i \in 1..k : Len(chunks[i]) \in {floor, ceil}
            /\ larger = 1..(n % k)
            /\ \A i \in 1..k :
                  Len(chunks[i]) = floor + (IF i - 1 < n % k THEN 1 ELSE 0)

\* A partition with a remainder: 5 elements over 3 segments, sizes 2, 2, 1.
PartitionedWithRemainder ==
    /\ pc = "done"
    /\ mode \in PartModes
    /\ Len(data) = 5
    /\ workers = 3
    /\ Len(chunks[1]) = 2 /\ Len(chunks[2]) = 2 /\ Len(chunks[3]) = 1

\* C6: the caller reads the result only after every worker it started has
\* terminated and has been joined.
NoReadBeforeJoin ==
    pc \in {"read", "done"} =>
        /\ started = NumChunks
        /\ joined = NumChunks
        /\ \A i \in 1..NumChunks : Terminated(i)

\* The caller is about to read the result of a run with several workers,
\* in one case after a worker that ended by raising.
ReadAfterJoin ==
    /\ pc = "read"
    /\ workers = 4
    /\ joined = 4
    /\ mode \in {"max_process", "sort_threads", "sort_processes", "max_threaded"}
    /\ mode = "max_process" => wpc[4] = "failed"

\* C7: a worker is between reading the accumulator and leaving the
\* critical section only while it holds the lock, and at most one worker
\* is there at a time.
CompareAndUpdateUnderLock ==
    /\ \A i \in 1..NumChunks : InCS(i) => lock = i
    /\ Cardinality({i \in 1..NumChunks : InCS(i)}) <= 1

\* A worker is about to write the accumulator while another is blocked on
\* the lock.
WriterExcludesContender ==
    \E i, j \in 1..NumChunks :
        /\ i /= j
        /\ wpc[i] = "write"
        /\ lock = i
        /\ wpc[j] = "run"
        /\ chunks[j] /= <<>>

\* C8: the value a max executor returns is the one the workers produce
\* when they enter the critical section in index order, whatever order
\* they did enter it in: the final value does not depend on the order.
MaxIndependentOfOrder ==
    (pc = "done" /\ mode \in MaxModes) =>
        result = InIndexOrder(mode, chunks, 1, Sentinel(mode))

\* C9: before any worker is started the accumulator holds a value strictly
\* below every input value.
SentinelBelowEveryInput ==
    (mode \in MaxModes /\ pc = "dispatch" /\ started = 0) =>
        \A v \in MaxValues : Gt(v, acc)

\* C10: a max run on an empty input does not return a value.
EmptyInputReturnsNothing ==
    (mode \in MaxModes /\ data = <<>>) => pc /= "done"

\* C11: a sort run on an empty input ends normally, no worker having
\* failed, and its merged result is the empty list (the segments
\* map_sort_threaded and map_sort_process return are all empty).
EmptySortReturnsEmpty ==
    (mode \in SortModes /\ data = <<>>) =>
        /\ \A i \in 1..NumChunks : wpc[i] /= "failed"
        /\ pc = "done" =>
              IF mode \in {"sort_threads", "sort_processes"}
              THEN result = <<>>
              ELSE Len(result) = workers /\ Concat(result) = <<>>

\* sort_threads or sort_processes has returned from a run on [] with k = 4.
EmptySortReturned ==
    /\ mode \in {"sort_threads", "sort_processes"}
    /\ data = <<>>
    /\ workers = 4
    /\ pc = "done"
    /\ result = <<>>

(***************************************************************************)
(* The partitioner on any segment count, k < 1 included.  With k = 0 the   *)
(* first statements, n // k and n % k, raise ZeroDivisionError; with       *)
(* k < 0 they succeed, range(k) is empty and the call returns [].          *)
(***************************************************************************)
ArgInit ==
    /\ mode \in PartModes
    /\ data \in SeqsUpTo(PartValues, MaxLenPart)
    /\ workers \in (-MaxNegK)..MaxK
    /\ chunks = <<>>
    /\ acc = None
    /\ lock = 0
    /\ local_max = <<>>
    /\ sorted_chunks = <<>>
    /\ writes = <<>>
    /\ wpc = <<>>
    /\ started = 0
    /\ joined = 0
    /\ pc = "call"
    /\ result = None

\* n // 0 raises ZeroDivisionError: the call ends without a partition.
PartitionRaise ==
    /\ pc = "call"
    /\ mode \in PartModes
    /\ workers = 0
    /\ pc' = "raised"
    /\ UNCHANGED <<mode, data, workers, chunks, acc, lock, local_max,
                   sorted_chunks, writes, wpc, started, joined, result>>

ArgNext ==
    \/ PartitionCall
    \/ PartitionRaise

ArgSpec == ArgInit /\ [][ArgNext]_vars

\* C12: a partitioner call with k < 1 fails and returns no partition, not
\* even an empty one.
InvalidWorkerCountRejected ==
    (mode \in PartModes /\ workers < 1) => pc /= "done"

\* C13: once a worker has ended by raising, the caller never gets past the
\* join loop and never returns a result.
WorkerFailureAbortsRun ==
    (\E i \in 1..NumChunks : wpc[i] = "failed") => pc \notin {"read", "done"}

\* C14: in a run with more workers than input elements no worker fails:
\* each worker of an empty trailing segment ends normally.
MoreWorkersThanElementsIsSafe ==
    (pc /= "call" /\ workers > Len(data)) =>
        \A i \in 1..NumChunks : wpc[i] /= "failed"

\* C15: with k = 1 a sort executor returns the sequentially sorted input
\* and a max executor returns the sequential maximum of the input (of a
\* nonempty input: max([]) has no value).
SingleWorkerIsSequential ==
    (pc = "done" /\ workers = 1) =>
        IF mode \in MaxModes THEN data /= <<>> => result = PyMax(data)
        ELSE IF mode \in {"sort_threads", "sort_processes"}
             THEN result = PySorted(data)
             ELSE result = <<PySorted(data)>>

\* C16: in the threaded sort executors slot i has been written exactly
\* once if worker i has finished and never otherwise, so that no worker
\* writes a slot other than its own and no slot is written twice; a written
\* slot i holds segment i in ascending order; and once the workers are
\* joined no slot is left unset.
SlotWritesDisjoint ==
    (mode \in {"map_sort_threaded", "sort_threads"} /\ pc /= "call") =>
        /\ Len(sorted_chunks) = workers
        /\ \A i \in 1..NumChunks :
              writes[i] = (IF wpc[i] = "done" THEN 1 ELSE 0)
        /\ \A i \in 1..NumChunks :
              wpc[i] = "done" =>
                  /\ IsSorted(sorted_chunks[i])
                  /\ IsPermutation(sorted_chunks[i],
                                   Partition(mode, data, workers)[i])
        /\ pc \in {"read", "done"} => \A i \in 1..NumChunks : writes[i] = 1

\* Both workers of a threaded sort of [9, 5, -3] have written their slots,
\* the second before the caller has joined the first.
SlotsFilled ==
    /\ mode \in {"map_sort_threaded", "sort_threads"}
    /\ data = <<9, 5, -3>>
    /\ workers = 2
    /\ pc = "join"
    /\ joined = 0
    /\ writes = <<1, 1>>
    /\ sorted_chunks = << <<5, 9>>, <<-3>> >>

\* The greatest of a and the local maxima lm[j], j >= i, of the workers
\* whose position in w is "done".
RECURSIVE FinishedMaxFrom(_, _, _, _)
FinishedMaxFrom(w, lm, i, a) ==
    IF i > Len(w) THEN a
    ELSE FinishedMaxFrom(w, lm, i + 1,
                         IF w[i] = "done" /\ Gt(lm[i], a) THEN lm[i] ELSE a)

\* One step of a max run, as the claim has it: the accumulator does not
\* decrease; it changes only by the write of a worker whose local maximum
\* is strictly greater; a worker goes on to write exactly if its local
\* maximum is strictly greater; and with no worker in the critical section
\* the accumulator is the greatest of the sentinel and the local maxima of
\* the workers that have left it.
AccumulatorStep ==
    (mode \in MaxModes /\ pc /= "call") =>
        /\ ~Gt(acc, acc')
        /\ acc' /= acc =>
              \E i \in 1..NumChunks :
                  wpc[i] = "write" /\ wpc'[i] = "exit" /\ Gt(local_max[i], acc)
        /\ \A i \in 1..NumChunks :
              (wpc[i] = "cs" /\ wpc'[i] /= "cs") =>
                  (wpc'[i] = "write" <=> Gt(local_max[i], acc))
        /\ (\A i \in 1..NumChunks : wpc'[i] \notin {"cs", "write", "exit"}) =>
              acc' = FinishedMaxFrom(wpc', local_max', 1, Sentinel(mode))

\* C17: every step of a max run is such a step.
AccumulatorMonotone == [][AccumulatorStep]_vars

\* C18: in a max run on a nonempty input the worker of an empty segment
\* does not fail, the local maximum it brings to the critical section is
\* strictly below every input value, and it never gets to write the
\* accumulator.
EmptySegmentContributesSentinel ==
    (mode \in MaxModes /\ pc /= "call" /\ data /= <<>>) =>
        \A i \in 1..NumChunks :
            chunks[i] = <<>> =>
                /\ wpc[i] /= "failed"
                /\ wpc[i] /= "write"
                /\ wpc[i] \in {"cs", "exit", "done"} =>
                      \A v \in MaxValues : Gt(v, local_max[i])

(***************************************************************************)
(* The max executors under fair scheduling: the caller keeps running, and  *)
(* a worker that can take a step (it is started, and the lock is free      *)
(* where it needs the lock) is eventually scheduled.                       *)
(***************************************************************************)
MaxInit == Init /\ mode \in MaxModes

MaxCaller == Setup \/ StartWorker \/ JoinWorker \/ Return

MaxWorker(i) ==
    \/ RaiseValueError(i)
    \/ ComputeLocalMax(i)
    \/ Acquire(i)
    \/ Compare(i)
    \/ Write(i)
    \/ Release(i)

MaxNext == MaxCaller \/ \E i \in 1..NumChunks : MaxWorker(i)

\* Every step of the caller or of a worker moves one of these.
progress == <<pc, wpc, local_max, started, joined>>

Fairness ==
    /\ WF_progress(MaxCaller)
    /\ \A i \in 1..MaxWorkers : WF_progress(i <= NumChunks /\ MaxWorker(i))

FairSpec == MaxInit /\ [][MaxNext]_vars /\ Fairness

\* C19: under fair scheduling a max run on a nonempty input ends with the
\* executor returned and every dispatched worker completed after acquiring
\* and releasing the lock.
EveryWorkerAcquiresAndCompletes ==
    (mode \in MaxModes /\ data /= <<>>) =>
        <>(pc = "done" /\ \A i \in 1..NumChunks : wpc[i] = "done")

\* A step keeps the caller's input, and changes a segment only when the
\* segment's own sort worker runs, which only reorders it.
InputKeptStep ==
    /\ data' = data
    /\ pc /= "call" =>
          \A j \in 1..NumChunks :
              chunks'[j] /= chunks[j] =>
                  /\ mode \in SortModes
                  /\ wpc[j] = "run" /\ wpc'[j] = "done"
                  /\ chunks'[j] = PySorted(chunks[j])
                  /\ \A k \in 1..NumChunks : k /= j => chunks'[k] = chunks[k]

\* C20: running a sort or max executor leaves the caller's input sequence
\* unchanged, and a sort worker reorders its own segment only, never
\* another worker's segment.
CallerInputUnchanged == [][InputKeptStep]_vars

InputKeptAfterSort ==
    /\ mode = "sort_threads"
    /\ data = <<9, 5, -3>>
    /\ workers = 2
    /\ pc = "done"
    /\ chunks = << <<5, 9>>, <<-3>> >>
    /\ result = <<-3, 5, 9>>

====
